---- MODULE Spec2Model ----
(***************************************************************************)
(* A model of the mock DAS server (das_mock/server.py).                    *)
(*                                                                         *)
(*   SpecExec  one ExecuteTable call: the generator MockTable.execute, its *)
(*             consumer (the ExecuteTable facade, or a direct caller of    *)
(*             the generator) and the call's cancellation signal.          *)
(*   SpecQual  the pure predicate MockTable._row_matches_quals.            *)
(*   SpecReg   the registry active_dases under one worker (calls run one   *)
(*             after the other).                                           *)
(*   SpecConc  the registry under several workers of the thread pool, the  *)
(*             handlers interleaved at the dictionary operations.          *)
(***************************************************************************)
EXTENDS Integers, Sequences, FiniteSets, TLC

\* ---------------------------------------------------------------------------
\* Bounds
\* ---------------------------------------------------------------------------
MaxN == 11

\* ---------------------------------------------------------------------------
\* Program constants
\* ---------------------------------------------------------------------------
batch_size == 5

VARIABLES
    \* ---- one execution (SpecExec) ----
    mode,           \* "rpc": consumed by ExecuteTable; "direct": generator used directly
    nrows,          \* MockTable.nrows
    query,          \* the request's query: [hasLimit, limit, columns, quals]
    hasCtx,         \* execute() was given a context (context is not None)
    active,         \* context.is_active()
    gpc,            \* position of the generator MockTable.execute
    i,              \* loop variable of execute
    current_batch,  \* execute's pending batch
    genOut,         \* batches yielded by the generator, in order
    genEnd,         \* why the generator left its loop
    finalized,      \* number of times execute's finally block has run
    gref,           \* the generator object is still referenced
    fpc,            \* position of the generator ExecuteTable
    batch,          \* ExecuteTable's loop variable
    facOut,         \* batches yielded by ExecuteTable, in order
    cancelGenOut,   \* Len(genOut) when the signal was raised, -1 before
    cancelFacOut    \* Len(facOut) when the signal was raised, -1 before

execVars == <<mode, nrows, query, hasCtx, active, gpc, i, current_batch,
              genOut, genEnd, finalized, gref, fpc, batch, facOut,
              cancelGenOut, cancelFacOut>>

\* ---- one evaluation of _row_matches_quals (SpecQual) ----
VARIABLES
    q_row,          \* the argument row_id
    q_quals,        \* the argument quals
    q_done,         \* the call has returned
    q_result        \* its return value

qualVars == <<q_row, q_quals, q_done, q_result>>

\* ---- the registry and the workers (SpecReg, SpecConc) ----
VARIABLES
    workers,        \* the workers of the thread pool that serve calls
    active_dases,   \* the dictionary das_id -> MockDAS (instances are numbered)
    inst_count,     \* number of MockDAS objects constructed so far
    inst_key,       \* inst_key[n]: the das_id the n-th MockDAS was built with
    closed,         \* closed[n]: number of close() calls on the n-th MockDAS
    uuids_used,     \* the values uuid.uuid4() has returned
    th,             \* per worker: the call it serves and where it is in it
    ncalls,         \* calls started so far
    unregistered,   \* ids unregistered with success and not registered since
    issued          \* ids returned by Register calls that generated their id

regVars == <<workers, active_dases, inst_count, inst_key, closed, uuids_used,
             th, ncalls, unregistered, issued>>

\* ---- several executions on one table (SpecStreams) ----
VARIABLES
    table_nrows,    \* MockTable.nrows of the table the streams run on
    st              \* per stream: its query, its signal, and the locals of its call of execute

streamVars == <<table_nrows, st>>

vars == <<execVars, qualVars, regVars, streamVars>>

\* ---------------------------------------------------------------------------
\* Helpers on sequences
\* ---------------------------------------------------------------------------
RECURSIVE Concat(_)
Concat(ss) == IF ss = <<>> THEN <<>> ELSE Head(ss) \o Concat(Tail(ss))

Last(s) == s[Len(s)]

\* ---------------------------------------------------------------------------
\* Qualifiers (MockTable._row_matches_quals)
\* ---------------------------------------------------------------------------
CompareOps == {"EQUALS", "NOT_EQUALS", "GREATER_THAN", "GREATER_THAN_OR_EQUAL",
               "LESS_THAN", "LESS_THAN_OR_EQUAL"}

\* a qualifier: the column name, whether it carries a simple_qual, whether the
\* simple_qual's value is an int, that value and the operator
Qual(name, op, v) == [name |-> name, simple |-> TRUE, isInt |-> TRUE, op |-> op, v |-> v]

\* variant: GREATER_THAN rejects with < where the code has <=
QualRejects_Strict(op, row_id, target_val) ==
    CASE op = "EQUALS"                -> row_id # target_val
      [] op = "NOT_EQUALS"            -> row_id = target_val
      [] op = "GREATER_THAN"          -> row_id < target_val
      [] op = "GREATER_THAN_OR_EQUAL" -> row_id < target_val
      [] op = "LESS_THAN"             -> row_id >= target_val
      [] op = "LESS_THAN_OR_EQUAL"    -> row_id > target_val
      [] OTHER                        -> FALSE

\* the if/elif chain on op: TRUE when the qualifier rejects row_id
QualRejects(op, row_id, target_val) ==
    CASE op = "EQUALS"                -> row_id # target_val
      [] op = "NOT_EQUALS"            -> row_id = target_val
      [] op = "GREATER_THAN"          -> row_id <= target_val
      [] op = "GREATER_THAN_OR_EQUAL" -> row_id < target_val
      [] op = "LESS_THAN"             -> row_id >= target_val
      [] op = "LESS_THAN_OR_EQUAL"    -> row_id > target_val
      [] OTHER                        -> FALSE

\* variant: the comparison is applied whatever column the qualifier names
RECURSIVE row_matches_quals_AnyColumn(_, _)
row_matches_quals_AnyColumn(row_id, quals) ==
    IF quals = <<>> THEN TRUE
    ELSE LET q == Head(quals) IN
         IF q.simple /\ q.isInt /\ QualRejects(q.op, row_id, q.v)
         THEN FALSE
         ELSE row_matches_quals_AnyColumn(row_id, Tail(quals))

RECURSIVE row_matches_quals(_, _)
row_matches_quals(row_id, quals) ==
    IF quals = <<>> THEN TRUE
    ELSE LET q == Head(quals) IN
         IF q.name = "id" /\ q.simple /\ q.isInt /\ QualRejects(q.op, row_id, q.v)
         THEN FALSE
         ELSE row_matches_quals(row_id, Tail(quals))

\* ---------------------------------------------------------------------------
\* MockTable.execute: the values computed before the loop and the row builder
\* ---------------------------------------------------------------------------
\* variant: the cap is one row too high
max_rows_OffByOne == IF query.hasLimit THEN query.limit + 1 ELSE nrows

\* variant: a limit of 0 counts as no limit
max_rows_ZeroIsUnset == IF query.hasLimit /\ query.limit # 0 THEN query.limit ELSE nrows

max_rows == IF query.hasLimit THEN query.limit ELSE nrows

requested_cols == IF query.columns # <<>> THEN query.columns ELSE <<"id", "name">>

\* one tables_pb2.Column; a string value is the tuple of the pieces of its f-string
BuildColumn(col_name, row_id) ==
    IF col_name = "id" THEN [name |-> "id", data |-> <<"int", row_id>>]
    ELSE IF col_name = "name"
         THEN [name |-> "name", data |-> <<"string", "Mock row #", row_id>>]
         ELSE [name |-> col_name,
               data |-> <<"string", "Value for ", col_name, " @ row ", row_id>>]

\* variant: a requested column the table does not know is left out of the row
BuildRow_KnownOnly(cols, row_id) ==
    LET known == SelectSeq(cols, LAMBDA c : c \in {"id", "name"}) IN
    [k \in 1..Len(known) |-> BuildColumn(known[k], row_id)]

BuildRow(cols, row_id) == [k \in 1..Len(cols) |-> BuildColumn(cols[k], row_id)]

\* what no step of an execution changes: its parameters, and the state of the
\* other specifications
ExecFixed == <<mode, nrows, query, hasCtx, qualVars, regVars, streamVars>>
FacVars == <<fpc, batch, facOut>>
CancelVars == <<cancelGenOut, cancelFacOut>>
\* what a step of the generator body leaves alone
GenFrame == <<ExecFixed, active, gref, FacVars, CancelVars>>

\* ---------------------------------------------------------------------------
\* The generator protocol on the object returned by execute()
\* ---------------------------------------------------------------------------
GenSuspended == gpc \in {"susp_full", "susp_left"}

\* variant: current_batch is not reset after a full batch was yielded
GenCallNext_KeepBatch ==
    /\ gpc \in {"init", "susp_full", "susp_left"}
    /\ CASE gpc = "init" ->
              /\ gpc' = "poll"
              /\ i' = 1
              /\ UNCHANGED current_batch
         [] gpc = "susp_full" ->
              /\ gpc' = "poll"
              /\ i' = i + 1
              /\ UNCHANGED current_batch
         [] gpc = "susp_left" ->
              /\ gpc' = "finally"
              /\ UNCHANGED <<i, current_batch>>
    /\ UNCHANGED <<genOut, genEnd, finalized>>

\* next(gen): start the body, or resume it after the yield it is suspended at
GenCallNext ==
    /\ gpc \in {"init", "susp_full", "susp_left"}
    /\ CASE gpc = "init" ->
              /\ gpc' = "poll"
              /\ i' = 1
              /\ UNCHANGED current_batch
         [] gpc = "susp_full" ->
              /\ gpc' = "poll"
              /\ i' = i + 1
              /\ current_batch' = <<>>
         [] gpc = "susp_left" ->
              /\ gpc' = "finally"
              /\ UNCHANGED <<i, current_batch>>
    /\ UNCHANGED <<genOut, genEnd, finalized>>

\* variant: the cleanup is not in a finally block, so closing a suspended
\* generator skips it
GenCallClose_NoFinally ==
    /\ gpc \in {"init", "susp_full", "susp_left", "done"}
    /\ CASE gpc = "init" -> gpc' = "done" /\ genEnd' = "unstarted"
         [] GenSuspended -> gpc' = "done" /\ genEnd' = "closed"
         [] gpc = "done" -> UNCHANGED <<gpc, genEnd>>
    /\ UNCHANGED <<i, current_batch, genOut, finalized>>

\* gen.close(): GeneratorExit is raised at the yield the body is suspended at;
\* a generator that was never started just ends
GenCallClose ==
    /\ gpc \in {"init", "susp_full", "susp_left", "done"}
    /\ CASE gpc = "init" -> gpc' = "done" /\ genEnd' = "unstarted"
         [] GenSuspended -> gpc' = "finally" /\ genEnd' = "closed"
         [] gpc = "done" -> UNCHANGED <<gpc, genEnd>>
    /\ UNCHANGED <<i, current_batch, genOut, finalized>>

\* ---------------------------------------------------------------------------
\* MockTable.execute, step by step
\* ---------------------------------------------------------------------------
\* variant: the signal is polled only when a batch begins
GenPoll_PerBatch ==
    /\ gpc = "poll"
    /\ IF i > nrows
       THEN gpc' = "leftover" /\ genEnd' = "exhausted"
       ELSE IF hasCtx /\ ~active /\ current_batch = <<>>
            THEN gpc' = "leftover" /\ genEnd' = "cancel"
            ELSE gpc' = "row" /\ UNCHANGED genEnd
    /\ UNCHANGED <<i, current_batch, genOut, finalized>>
    /\ UNCHANGED GenFrame

\* the loop head and the cancellation check of one iteration
GenPoll ==
    /\ gpc = "poll"
    /\ IF i > nrows
       THEN gpc' = "leftover" /\ genEnd' = "exhausted"
       ELSE IF hasCtx /\ ~active
            THEN gpc' = "leftover" /\ genEnd' = "cancel"
            ELSE gpc' = "row" /\ UNCHANGED genEnd
    /\ UNCHANGED <<i, current_batch, genOut, finalized>>
    /\ UNCHANGED GenFrame

\* variant: a row the qualifiers reject is taken up again, the ordinal not advanced
GenRow_Stuck ==
    /\ gpc = "row"
    /\ IF i > max_rows
       THEN /\ gpc' = "leftover"
            /\ genEnd' = "cap"
            /\ UNCHANGED <<i, current_batch, genOut>>
       ELSE IF ~row_matches_quals(i, query.quals)
            THEN /\ gpc' = "poll"
                 /\ UNCHANGED <<i, current_batch, genOut, genEnd>>
            ELSE LET nb == Append(current_batch, BuildRow(requested_cols, i)) IN
                 /\ current_batch' = nb
                 /\ IF Len(nb) >= batch_size
                    THEN /\ genOut' = Append(genOut, nb)
                         /\ gpc' = "susp_full"
                         /\ UNCHANGED i
                    ELSE /\ gpc' = "poll"
                         /\ i' = i + 1
                         /\ UNCHANGED genOut
                 /\ UNCHANGED genEnd
    /\ UNCHANGED finalized
    /\ UNCHANGED GenFrame

\* variant: the batch is handed over once it holds more than batch_size rows
GenRow_LateFlush ==
    /\ gpc = "row"
    /\ IF i > max_rows
       THEN /\ gpc' = "leftover"
            /\ genEnd' = "cap"
            /\ UNCHANGED <<i, current_batch, genOut>>
       ELSE IF ~row_matches_quals(i, query.quals)
            THEN /\ gpc' = "poll"
                 /\ i' = i + 1
                 /\ UNCHANGED <<current_batch, genOut, genEnd>>
            ELSE LET nb == Append(current_batch, BuildRow(requested_cols, i)) IN
                 /\ current_batch' = nb
                 /\ IF Len(nb) > batch_size
                    THEN /\ genOut' = Append(genOut, nb)
                         /\ gpc' = "susp_full"
                         /\ UNCHANGED i
                    ELSE /\ gpc' = "poll"
                         /\ i' = i + 1
                         /\ UNCHANGED genOut
                 /\ UNCHANGED genEnd
    /\ UNCHANGED finalized
    /\ UNCHANGED GenFrame

\* the rest of the iteration: the cap, the qualifiers, the row, the full batch
GenRow ==
    /\ gpc = "row"
    /\ IF i > max_rows
       THEN /\ gpc' = "leftover"
            /\ genEnd' = "cap"
            /\ UNCHANGED <<i, current_batch, genOut>>
       ELSE IF ~row_matches_quals(i, query.quals)
            THEN /\ gpc' = "poll"
                 /\ i' = i + 1
                 /\ UNCHANGED <<current_batch, genOut, genEnd>>
            ELSE LET nb == Append(current_batch, BuildRow(requested_cols, i)) IN
                 /\ current_batch' = nb
                 /\ IF Len(nb) >= batch_size
                    THEN /\ genOut' = Append(genOut, nb)
                         /\ gpc' = "susp_full"
                         /\ UNCHANGED i
                    ELSE /\ gpc' = "poll"
                         /\ i' = i + 1
                         /\ UNCHANGED genOut
                 /\ UNCHANGED genEnd
    /\ UNCHANGED finalized
    /\ UNCHANGED GenFrame

\* variant: the leftover rows are flushed whatever the signal says
GenLeftover_AlwaysFlush ==
    /\ gpc = "leftover"
    /\ IF current_batch # <<>>
       THEN gpc' = "yield_left"
       ELSE gpc' = "finally"
    /\ UNCHANGED <<i, current_batch, genOut, genEnd, finalized>>
    /\ UNCHANGED GenFrame

\* the test that guards the leftover rows
GenLeftover ==
    /\ gpc = "leftover"
    /\ IF current_batch # <<>> /\ (~hasCtx \/ active)
       THEN gpc' = "yield_left"
       ELSE gpc' = "finally"
    /\ UNCHANGED <<i, current_batch, genOut, genEnd, finalized>>
    /\ UNCHANGED GenFrame

\* the yield of the leftover rows
GenYieldLeft ==
    /\ gpc = "yield_left"
    /\ genOut' = Append(genOut, current_batch)
    /\ gpc' = "susp_left"
    /\ UNCHANGED <<i, current_batch, genEnd, finalized>>
    /\ UNCHANGED GenFrame

\* the finally block
GenFinally ==
    /\ gpc = "finally"
    /\ finalized' = finalized + 1
    /\ gpc' = "done"
    /\ UNCHANGED <<i, current_batch, genOut, genEnd>>
    /\ UNCHANGED GenFrame

\* the generator object loses its last reference while suspended
GenDealloc ==
    /\ ~gref
    /\ gpc \in {"init", "susp_full", "susp_left"}
    /\ GenCallClose
    /\ UNCHANGED <<ExecFixed, active, gref, FacVars, CancelVars>>

\* ---------------------------------------------------------------------------
\* The cancellation signal of the call
\* ---------------------------------------------------------------------------
Cancel ==
    /\ hasCtx
    /\ active
    /\ active' = FALSE
    /\ cancelGenOut' = Len(genOut)
    /\ cancelFacOut' = Len(facOut)
    /\ UNCHANGED <<ExecFixed, gpc, i, current_batch, genOut, genEnd, finalized,
                   gref, FacVars>>

\* ---------------------------------------------------------------------------
\* TablesServiceServicer.ExecuteTable, step by step
\* ---------------------------------------------------------------------------
\* gen = table.execute(...) and the first next(gen) of the for loop
FacStart ==
    /\ mode = "rpc"
    /\ fpc = "idle"
    /\ gpc = "none"
    /\ gpc' = "poll"
    /\ i' = 1
    /\ gref' = TRUE
    /\ fpc' = "next"
    /\ UNCHANGED <<ExecFixed, active, current_batch, genOut, genEnd, finalized,
                   batch, facOut, CancelVars>>

\* next(gen) returned a batch
FacGotBatch ==
    /\ fpc = "next"
    /\ GenSuspended
    /\ batch' = Last(genOut)
    /\ fpc' = "check"
    /\ UNCHANGED <<ExecFixed, active, gpc, i, current_batch, genOut, genEnd,
                   finalized, gref, facOut, CancelVars>>

\* next(gen) raised StopIteration: the for loop ends
FacLoopEnd ==
    /\ fpc = "next"
    /\ gpc = "done"
    /\ fpc' = "finally"
    /\ UNCHANGED <<ExecFixed, active, gpc, i, current_batch, genOut, genEnd,
                   finalized, gref, batch, facOut, CancelVars>>

\* if not context.is_active()
FacCheck ==
    /\ fpc = "check"
    /\ fpc' = IF ~active THEN "close" ELSE "yield"
    /\ UNCHANGED <<ExecFixed, active, gpc, i, current_batch, genOut, genEnd,
                   finalized, gref, batch, facOut, CancelVars>>

\* gen.close()
FacClose ==
    /\ fpc = "close"
    /\ GenCallClose
    /\ fpc' = "closing"
    /\ UNCHANGED <<ExecFixed, active, gref, batch, facOut, CancelVars>>

\* gen.close() returned: break
FacBreak ==
    /\ fpc = "closing"
    /\ gpc = "done"
    /\ fpc' = "finally"
    /\ UNCHANGED <<ExecFixed, active, gpc, i, current_batch, genOut, genEnd,
                   finalized, gref, batch, facOut, CancelVars>>

\* yield batch
FacYield ==
    /\ fpc = "yield"
    /\ facOut' = Append(facOut, batch)
    /\ fpc' = "susp"
    /\ UNCHANGED <<ExecFixed, active, gpc, i, current_batch, genOut, genEnd,
                   finalized, gref, batch, CancelVars>>

\* the transport asks for the next response: the for loop calls next(gen)
TransportNext ==
    /\ fpc = "susp"
    /\ GenCallNext
    /\ fpc' = "next"
    /\ UNCHANGED <<ExecFixed, active, gref, batch, facOut, CancelVars>>

\* the transport, its call no longer active, gives up the response iterator:
\* GeneratorExit is raised at ExecuteTable's yield
TransportClose ==
    /\ fpc = "susp"
    /\ ~active
    /\ fpc' = "finally"
    /\ UNCHANGED <<ExecFixed, active, gpc, i, current_batch, genOut, genEnd,
                   finalized, gref, batch, facOut, CancelVars>>

\* ExecuteTable's finally block; its frame, and with it gen, is released
FacFinally ==
    /\ fpc = "finally"
    /\ fpc' = "done"
    /\ gref' = FALSE
    /\ UNCHANGED <<ExecFixed, active, gpc, i, current_batch, genOut, genEnd,
                   finalized, batch, facOut, CancelVars>>

\* ---------------------------------------------------------------------------
\* A direct caller of execute(query, context=None)
\* ---------------------------------------------------------------------------
DirectNext ==
    /\ mode = "direct"
    /\ gref
    /\ GenCallNext
    /\ UNCHANGED <<ExecFixed, active, gref, FacVars, CancelVars>>

DirectClose ==
    /\ mode = "direct"
    /\ gref
    /\ gpc # "done"
    /\ GenCallClose
    /\ UNCHANGED <<ExecFixed, active, gref, FacVars, CancelVars>>

DirectDrop ==
    /\ mode = "direct"
    /\ gref
    /\ gpc \in {"init", "susp_full", "susp_left", "done"}
    /\ gref' = FALSE
    /\ UNCHANGED <<ExecFixed, active, gpc, i, current_batch, genOut, genEnd,
                   finalized, FacVars, CancelVars>>

\* ---------------------------------------------------------------------------
\* One evaluation of _row_matches_quals (SpecQual)
\* ---------------------------------------------------------------------------
MaxOrd == 3
MaxQualLen == 2

MatchQuals ==
    /\ ~q_done
    /\ q_done' = TRUE
    /\ q_result' = row_matches_quals(q_row, q_quals)
    /\ UNCHANGED <<q_row, q_quals, execVars, regVars, streamVars>>

\* ---------------------------------------------------------------------------
\* The registry active_dases and its handlers (SpecReg, SpecConc)
\* ---------------------------------------------------------------------------
MaxCalls == 4
MaxConcCalls == 2
NumWorkers == 2

ExplicitIds == {"a", "b"}
UuidPool == {"u1", "u2"}
DasTypes == {"mock", "unsupported-kind"}
TableNames == {"small_table", "large_table", "no_such_table"}
Mutations == {"InsertTable", "BulkInsertTable", "UpdateTable", "DeleteTable"}
TableRpcs == {"GetTableSortOrders", "GetTablePathKeys", "GetTableEstimate",
              "ExplainTable", "ExecuteTable", "GetTableUniqueColumn",
              "GetBulkInsertTableSize"} \cup Mutations
InstanceRpcs == {"GetTableDefinitions"} \cup TableRpcs

IdleThread ==
    [pc |-> "idle", call |-> "", typ |-> "", explicit |-> FALSE, key |-> "",
     table |-> "", inst |-> 0, status |-> "", id |-> "", msg |-> "", op |-> "",
     health |-> ""]

\* the call of worker t ends, by return, by context.abort, or by an exception;
\* op is the method of the resolved table the handler called, "" when none
FinishOp(t, call, explicit, key, table, status, id, msg, op) ==
    th' = [th EXCEPT ![t] = [pc |-> "done", call |-> call,
                             typ |-> (IF call = "Register" THEN "mock" ELSE ""),
                             explicit |-> explicit,
                             key |-> key, table |-> table, inst |-> th[t].inst,
                             status |-> status, id |-> id, msg |-> msg, op |-> op,
                             health |-> ""]]

\* the call of worker t ends without a table method having been called
Finish(t, call, explicit, key, table, status, id, msg) ==
    FinishOp(t, call, explicit, key, table, status, id, msg, "")

\* the number of calls a behaviour starts is capped: by MaxCalls when one
\* worker serves them, by MaxConcCalls when several do
CallBudget == IF Cardinality(workers) = 1 THEN MaxCalls ELSE MaxConcCalls

CanStart(t) == t \in workers /\ th[t].pc = "idle" /\ ncalls < CallBudget

\* worker t is at position pc of the call it serves
At(t, pc) == t \in workers /\ th[t].pc = pc

\* the ids a client can name: the explicit ones and those the server generated
KnownIds == ExplicitIds \cup uuids_used

\* the values uuid.uuid4() can return: never one it returned before
FreshUuids(used) == UuidPool \ used

\* variant: Register without the test "das_key in active_dases"
RegisterBegin_NoTest(t, typ, rid) ==
    /\ CanStart(t)
    /\ rid \in {""} \cup KnownIds
    /\ ncalls' = ncalls + 1
    /\ IF typ # "mock"
       THEN /\ th' = [th EXCEPT ![t] = [IdleThread EXCEPT !.pc = "done",
                                                !.call = "Register",
                                                !.typ = typ,
                                                !.explicit = (rid # ""),
                                                !.key = rid,
                                                !.status = "OK",
                                                !.msg = "Unsupported DAS type"]]
            /\ UNCHANGED uuids_used
       ELSE \E das_key \in (IF rid # "" THEN {rid} ELSE FreshUuids(uuids_used)) :
            /\ uuids_used' = IF rid # "" THEN uuids_used ELSE uuids_used \cup {das_key}
            /\ th' = [th EXCEPT ![t] = [IdleThread EXCEPT !.pc = "construct",
                                             !.call = "Register",
                                             !.typ = typ,
                                             !.explicit = (rid # ""),
                                             !.key = das_key]]
    /\ UNCHANGED <<execVars, qualVars, streamVars, workers, active_dases, inst_count, inst_key,
                   closed, unregistered, issued>>

\* variant: Register looks the id up before it looks at the type
RegisterBegin_IdFirst(t, typ, rid) ==
    /\ CanStart(t)
    /\ rid \in {""} \cup KnownIds
    /\ ncalls' = ncalls + 1
    /\ \E das_key \in (IF rid # "" THEN {rid} ELSE FreshUuids(uuids_used)) :
            /\ uuids_used' = IF rid # "" THEN uuids_used ELSE uuids_used \cup {das_key}
            /\ th' = [th EXCEPT ![t] =
                  IF das_key \in DOMAIN active_dases
                  THEN [IdleThread EXCEPT !.pc = "done",
                                          !.call = "Register",
                                          !.typ = typ,
                                          !.explicit = (rid # ""),
                                          !.key = das_key,
                                          !.status = "OK",
                                          !.id = das_key]
                  ELSE IF typ # "mock"
                       THEN [IdleThread EXCEPT !.pc = "done",
                                               !.call = "Register",
                                               !.typ = typ,
                                               !.explicit = (rid # ""),
                                               !.key = rid,
                                               !.status = "OK",
                                               !.msg = "Unsupported DAS type"]
                       ELSE [IdleThread EXCEPT !.pc = "construct",
                                               !.call = "Register",
                                               !.typ = typ,
                                               !.explicit = (rid # ""),
                                               !.key = das_key]]
    /\ UNCHANGED <<execVars, qualVars, streamVars, workers, active_dases, inst_count, inst_key, closed,
                   unregistered, issued>>

\* Register up to the test "das_key in active_dases"; rid = "" stands for a
\* request without id or with an empty one
RegisterBegin(t, typ, rid) ==
    /\ CanStart(t)
    /\ rid \in {""} \cup KnownIds
    /\ ncalls' = ncalls + 1
    /\ IF typ # "mock"
       THEN /\ th' = [th EXCEPT ![t] = [IdleThread EXCEPT !.pc = "done",
                                                !.call = "Register",
                                                !.typ = typ,
                                                !.explicit = (rid # ""),
                                                !.key = rid,
                                                !.status = "OK",
                                                !.msg = "Unsupported DAS type"]]
            /\ UNCHANGED uuids_used
       ELSE \E das_key \in (IF rid # "" THEN {rid} ELSE FreshUuids(uuids_used)) :
            /\ uuids_used' = IF rid # "" THEN uuids_used ELSE uuids_used \cup {das_key}
            /\ IF das_key \in DOMAIN active_dases
               THEN Finish(t, "Register", rid # "", das_key, "", "OK", das_key, "")
               ELSE th' = [th EXCEPT ![t] = [IdleThread EXCEPT !.pc = "construct",
                                                !.call = "Register",
                                                !.typ = typ,
                                                !.explicit = (rid # ""),
                                                !.key = das_key]]
    /\ UNCHANGED <<execVars, qualVars, streamVars, workers, active_dases, inst_count, inst_key, closed,
                   unregistered, issued>>

\* MockDAS.__init__ builds its two tables from literals: no statement of it raises
MockDAS_init_raises == FALSE

\* mock_das = MockDAS(das_id=das_key, options=definition.options), in a try
\* whose except branch answers the error in-band
RegisterConstruct(t) ==
    /\ At(t, "construct")
    /\ IF MockDAS_init_raises
       THEN /\ th' = [th EXCEPT ![t].pc = "done", ![t].status = "OK",
                                ![t].msg = "construction failed"]
            /\ UNCHANGED <<inst_count, inst_key, closed>>
       ELSE /\ inst_count' = inst_count + 1
            /\ inst_key' = Append(inst_key, th[t].key)
            /\ closed' = Append(closed, 0)
            /\ th' = [th EXCEPT ![t].pc = "store", ![t].inst = inst_count + 1]
    /\ UNCHANGED <<execVars, qualVars, streamVars, workers, active_dases, uuids_used, ncalls,
                   unregistered, issued>>

\* variant: the store rebinds the dictionary to one holding only the new entry
RegisterStore_Rebind(t) ==
    /\ At(t, "store")
    /\ active_dases' = [k \in {th[t].key} |-> th[t].inst]
    /\ Finish(t, "Register", th[t].explicit, th[t].key, "", "OK", th[t].key, "")
    /\ unregistered' = unregistered \ {th[t].key}
    /\ issued' = IF th[t].explicit THEN issued ELSE issued \cup {th[t].key}
    /\ UNCHANGED <<execVars, qualVars, streamVars, workers, inst_count, inst_key, closed, uuids_used, ncalls>>

\* active_dases[das_key] = mock_das, and the response
RegisterStore(t) ==
    /\ At(t, "store")
    /\ active_dases' = [k \in DOMAIN active_dases \cup {th[t].key} |->
                           IF k = th[t].key THEN th[t].inst ELSE active_dases[k]]
    /\ Finish(t, "Register", th[t].explicit, th[t].key, "", "OK", th[t].key, "")
    /\ unregistered' = unregistered \ {th[t].key}
    /\ issued' = IF th[t].explicit THEN issued ELSE issued \cup {th[t].key}
    /\ UNCHANGED <<execVars, qualVars, streamVars, workers, inst_count, inst_key, closed, uuids_used, ncalls>>

\* Unregister up to the test "das_key not in active_dases"
UnregisterBegin(t, das_key) ==
    /\ CanStart(t)
    /\ das_key \in KnownIds
    /\ ncalls' = ncalls + 1
    /\ IF das_key \notin DOMAIN active_dases
       THEN Finish(t, "Unregister", TRUE, das_key, "", "INVALID_ARGUMENT", "", "DAS not found")
       ELSE th' = [th EXCEPT ![t] = [IdleThread EXCEPT !.pc = "pop",
                                        !.call = "Unregister",
                                        !.explicit = TRUE,
                                        !.key = das_key]]
    /\ UNCHANGED <<execVars, qualVars, streamVars, workers, active_dases, inst_count, inst_key,
                   closed, uuids_used,
                   unregistered, issued>>

\* instance = active_dases.pop(das_key): KeyError when the key is gone
UnregisterPop(t) ==
    /\ At(t, "pop")
    /\ IF th[t].key \in DOMAIN active_dases
       THEN /\ active_dases' = [k \in DOMAIN active_dases \ {th[t].key} |-> active_dases[k]]
            /\ th' = [th EXCEPT ![t].pc = "close", ![t].inst = active_dases[th[t].key]]
       ELSE /\ Finish(t, "Unregister", TRUE, th[t].key, "", "CRASH", "", "KeyError")
            /\ UNCHANGED active_dases
    /\ UNCHANGED <<execVars, qualVars, streamVars, workers, inst_count, inst_key, closed, uuids_used, ncalls,
                   unregistered, issued>>

\* variant: closing an instance raises the cancellation signal of its streams
UnregisterClose_CancelsStreams(t) ==
    /\ At(t, "close")
    /\ closed' = [closed EXCEPT ![th[t].inst] = @ + 1]
    /\ Finish(t, "Unregister", TRUE, th[t].key, "", "OK", "", "")
    /\ unregistered' = unregistered \cup {th[t].key}
    /\ active' = FALSE
    /\ UNCHANGED <<mode, nrows, query, hasCtx, gpc, i, current_batch, genOut, genEnd,
                   finalized, gref, fpc, batch, facOut, cancelGenOut, cancelFacOut>>
    /\ UNCHANGED <<qualVars, streamVars, workers, active_dases, inst_count, inst_key,
                   uuids_used, ncalls, issued>>

\* instance.close(), and the response
UnregisterClose(t) ==
    /\ At(t, "close")
    /\ closed' = [closed EXCEPT ![th[t].inst] = @ + 1]
    /\ Finish(t, "Unregister", TRUE, th[t].key, "", "OK", "", "")
    /\ unregistered' = unregistered \cup {th[t].key}
    /\ UNCHANGED <<execVars, qualVars, streamVars, workers, active_dases, inst_count, inst_key,
                   uuids_used, ncalls, issued>>

\* variant: a name that is not small_table resolves to large_table
get_table_found_Default(table) == table \in TableNames

\* MockDAS.get_table
get_table_found(table) == table \in {"small_table", "large_table"}

\* the method each handler calls on what it resolved (GetTableDefinitions
\* calls the instance, the others the table)
TableMethod(rpc) ==
    CASE rpc = "GetTableDefinitions"    -> "get_definitions"
      [] rpc = "GetTableSortOrders"     -> "get_sort_orders"
      [] rpc = "GetTablePathKeys"       -> "get_path_keys"
      [] rpc = "GetTableEstimate"       -> "get_estimate"
      [] rpc = "ExplainTable"           -> "explain"
      [] rpc = "ExecuteTable"           -> "execute"
      [] rpc = "GetTableUniqueColumn"   -> "get_unique_column"
      [] rpc = "InsertTable"            -> "insert"
      [] rpc = "GetBulkInsertTableSize" -> "get_bulk_insert_size"
      [] rpc = "BulkInsertTable"        -> "bulk_insert"
      [] rpc = "UpdateTable"            -> "update"
      [] rpc = "DeleteTable"            -> "delete"

\* variant: the mutations answer like the other calls
TableOpStatus_Ok(rpc) == IF rpc \in InstanceRpcs THEN "OK" ELSE "UNIMPLEMENTED"

\* what a handler does with the table it resolved: the four mutations abort
\* because the table returns None, the others answer
TableOpStatus(rpc) == IF rpc \in Mutations THEN "UNIMPLEMENTED" ELSE "OK"

\* the instance-resolving calls a specification issues: all of them when the
\* calls run one after the other; one of each kind (no table, answering,
\* mutation) when workers interleave, where the handlers differ only in the
\* status of their last step
ConcRpcs == {"GetTableDefinitions", "ExecuteTable", "InsertTable"}
ServedRpcs == IF Cardinality(workers) = 1 THEN InstanceRpcs ELSE ConcRpcs

\* an instance-resolving call up to get_das_or_error's test "das_key not in active_dases"
TableCallBegin(t, rpc, das_key, table) ==
    /\ CanStart(t)
    /\ rpc \in ServedRpcs
    /\ das_key \in KnownIds
    /\ ncalls' = ncalls + 1
    /\ IF das_key \notin DOMAIN active_dases
       THEN Finish(t, rpc, TRUE, das_key, table, "NOT_FOUND", "", "DAS not found")
       ELSE th' = [th EXCEPT ![t] = [IdleThread EXCEPT !.pc = "lookup",
                                        !.call = rpc,
                                        !.explicit = TRUE,
                                        !.key = das_key,
                                        !.table = table]]
    /\ UNCHANGED <<execVars, qualVars, streamVars, workers, active_dases, inst_count, inst_key,
                   closed, uuids_used,
                   unregistered, issued>>

\* return active_dases[das_key] (KeyError when the key is gone), then the
\* handler's get_table and its table operation
TableCallLookup(t) ==
    /\ At(t, "lookup")
    /\ LET c == th[t] IN
       IF c.key \notin DOMAIN active_dases
       THEN Finish(t, c.call, TRUE, c.key, c.table, "CRASH", "", "KeyError")
       ELSE IF c.call # "GetTableDefinitions" /\ ~get_table_found(c.table)
            THEN Finish(t, c.call, TRUE, c.key, c.table, "INVALID_ARGUMENT", "", "Unknown table")
            ELSE IF TableOpStatus(c.call) = "UNIMPLEMENTED"
                 THEN FinishOp(t, c.call, TRUE, c.key, c.table, "UNIMPLEMENTED", "",
                               "not supported", TableMethod(c.call))
                 ELSE FinishOp(t, c.call, TRUE, c.key, c.table, "OK", "", "",
                               TableMethod(c.call))
    /\ UNCHANGED <<execVars, qualVars, streamVars, workers, active_dases, inst_count, inst_key,
                   closed, uuids_used,
                   ncalls, unregistered, issued>>

\* variant: the health check answers NOT_SERVING while the registry is empty
Check_NeedsInstance(t) ==
    /\ t \in workers
    /\ th[t].pc = "idle"
    /\ th' = [th EXCEPT ![t] = [IdleThread EXCEPT
                  !.pc = "done",
                  !.call = "Check",
                  !.status = "OK",
                  !.health = IF DOMAIN active_dases = {} THEN "NOT_SERVING" ELSE "SERVING",
                  !.msg = IF DOMAIN active_dases = {} THEN "No instance registered."
                                                      ELSE "Mock server is healthy."]]
    /\ UNCHANGED <<execVars, qualVars, streamVars, workers, active_dases, inst_count, inst_key,
                   closed, uuids_used,
                   ncalls, unregistered, issued>>

\* HealthCheckServiceServicer.Check: it reads nothing and always answers the
\* same response (health: its status field, msg: its description)
Check(t) ==
    /\ t \in workers
    /\ th[t].pc = "idle"
    /\ th' = [th EXCEPT ![t] = [IdleThread EXCEPT !.pc = "done",
                                                  !.call = "Check",
                                                  !.status = "OK",
                                                  !.health = "SERVING",
                                                  !.msg = "Mock server is healthy."]]
    /\ UNCHANGED <<execVars, qualVars, streamVars, workers, active_dases, inst_count, inst_key,
                   closed, uuids_used,
                   ncalls, unregistered, issued>>

\* the worker hands the outcome to the transport and is free again
Return(t) ==
    /\ At(t, "done")
    /\ th' = [th EXCEPT ![t] = IdleThread]
    /\ UNCHANGED <<execVars, qualVars, streamVars, workers, active_dases, inst_count, inst_key,
                   closed, uuids_used,
                   ncalls, unregistered, issued>>

\* ---------------------------------------------------------------------------
\* The parts of the state a specification does not use
\* ---------------------------------------------------------------------------
ExecOff ==
    /\ mode = "off"
    /\ nrows = 0
    /\ query = [hasLimit |-> FALSE, limit |-> 0, columns |-> <<>>, quals |-> <<>>]
    /\ hasCtx = FALSE
    /\ active = TRUE
    /\ gpc = "none"
    /\ i = 0
    /\ current_batch = <<>>
    /\ genOut = <<>>
    /\ genEnd = "none"
    /\ finalized = 0
    /\ gref = FALSE
    /\ fpc = "unused"
    /\ batch = <<>>
    /\ facOut = <<>>
    /\ cancelGenOut = -1
    /\ cancelFacOut = -1

QualOff ==
    /\ q_row = 0
    /\ q_quals = <<>>
    /\ q_done = TRUE
    /\ q_result = TRUE

StreamsOff ==
    /\ table_nrows = 0
    /\ st = <<>>

RegOff ==
    /\ workers = {}
    /\ active_dases = <<>>
    /\ inst_count = 0
    /\ inst_key = <<>>
    /\ closed = <<>>
    /\ uuids_used = {}
    /\ th = <<>>
    /\ ncalls = 0
    /\ unregistered = {}
    /\ issued = {}

\* ---------------------------------------------------------------------------
\* SpecExec
\* ---------------------------------------------------------------------------
LimitChoices ==
    {[has |-> FALSE, v |-> 0]} \cup {[has |-> TRUE, v |-> l] : l \in 0..(MaxN + 1)}

ColumnChoices == {<<>>, <<"id">>, <<"name", "id">>, <<"id", "extra">>}

QualChoices ==
    { <<>>,
      <<Qual("id", "GREATER_THAN", 7)>>,
      <<Qual("id", "NOT_EQUALS", 3), Qual("id", "LESS_THAN_OR_EQUAL", 9)>>,
      <<Qual("id", "EQUALS", MaxN + 5)>>,
      <<Qual("name", "EQUALS", 1), Qual("id", "GREATER_THAN_OR_EQUAL", 2)>> }

Queries ==
    {[hasLimit |-> l.has, limit |-> l.v, columns |-> c, quals |-> q] :
        l \in LimitChoices, c \in ColumnChoices, q \in QualChoices}

InitExec ==
    /\ mode \in {"rpc", "direct"}
    /\ nrows \in 0..MaxN
    /\ query \in Queries
    /\ hasCtx \in BOOLEAN
    /\ (mode = "rpc" => hasCtx)
    /\ active = TRUE
    /\ gpc = IF mode = "rpc" THEN "none" ELSE "init"
    /\ i = 0
    /\ current_batch = <<>>
    /\ genOut = <<>>
    /\ genEnd = "none"
    /\ finalized = 0
    /\ gref = (mode = "direct")
    /\ fpc = IF mode = "rpc" THEN "idle" ELSE "unused"
    /\ batch = <<>>
    /\ facOut = <<>>
    /\ cancelGenOut = -1
    /\ cancelFacOut = -1
    /\ QualOff
    /\ RegOff
    /\ StreamsOff

NextExec ==
    \/ GenPoll
    \/ GenRow
    \/ GenLeftover
    \/ GenYieldLeft
    \/ GenFinally
    \/ GenDealloc
    \/ Cancel
    \/ FacStart
    \/ FacGotBatch
    \/ FacLoopEnd
    \/ FacCheck
    \/ FacClose
    \/ FacBreak
    \/ FacYield
    \/ TransportNext
    \/ TransportClose
    \/ FacFinally
    \/ DirectNext
    \/ DirectClose
    \/ DirectDrop

SpecExec == InitExec /\ [][NextExec]_vars

\* the steps of the body of execute: a generator that was resumed runs on
GenStep ==
    \/ GenPoll
    \/ GenRow
    \/ GenLeftover
    \/ GenYieldLeft
    \/ GenFinally

\* the steps of whoever holds the generator: ExecuteTable and the transport
\* that drives it, a direct caller, and the interpreter once the generator is
\* no longer referenced
ConsumerStep ==
    \/ FacStart
    \/ FacGotBatch
    \/ FacLoopEnd
    \/ FacCheck
    \/ FacClose
    \/ FacBreak
    \/ FacYield
    \/ TransportNext
    \/ TransportClose
    \/ FacFinally
    \/ DirectNext
    \/ DirectClose
    \/ DirectDrop
    \/ GenDealloc

\* one execution in which the generator, once resumed, keeps running and its
\* consumer keeps pulling or closes; the signal may be raised at any moment or never
SpecExecFair == SpecExec /\ WF_vars(GenStep) /\ WF_vars(ConsumerStep)

\* ---------------------------------------------------------------------------
\* SpecQual
\* ---------------------------------------------------------------------------
Ordinals == 1..MaxOrd
Literals == (-1)..(MaxOrd + 1)

\* the comparisons on id, and one qualifier of each shape the table passes over
QualUniverse ==
    {Qual("id", op, v) : op \in CompareOps, v \in Literals}
    \cup {Qual("name", "EQUALS", 1),
          [Qual("id", "EQUALS", 1) EXCEPT !.simple = FALSE],
          [Qual("id", "EQUALS", 1) EXCEPT !.isInt = FALSE],
          Qual("id", "LIKE", 1)}

QualSeqs == UNION {[1..n -> QualUniverse] : n \in 0..MaxQualLen}

InitQual ==
    /\ q_row \in Ordinals
    /\ q_quals \in QualSeqs
    /\ q_done = FALSE
    /\ q_result = FALSE
    /\ ExecOff
    /\ RegOff
    /\ StreamsOff

NextQual == MatchQuals

SpecQual == InitQual /\ [][NextQual]_vars

\* ---------------------------------------------------------------------------
\* SpecReg and SpecConc
\* ---------------------------------------------------------------------------
\* the registry after the Register calls of the ids of pre, in that order, have
\* been served, and no call in flight
RegistryAfter(pre) ==
    /\ active_dases = [k \in {pre[n] : n \in 1..Len(pre)} |->
                          CHOOSE n \in 1..Len(pre) : pre[n] = k]
    /\ inst_count = Len(pre)
    /\ inst_key = pre
    /\ closed = [n \in 1..Len(pre) |-> 0]
    /\ uuids_used = {}
    /\ th = [t \in workers |-> IdleThread]
    /\ ncalls = 0
    /\ unregistered = {}
    /\ issued = {}

\* the same, with no execution and no qualifier evaluation in the state
InitRegistry(pre) ==
    /\ RegistryAfter(pre)
    /\ ExecOff
    /\ QualOff
    /\ StreamsOff

\* one worker, an empty registry
InitReg == workers = {1} /\ InitRegistry(<<>>)

\* several workers, which find the registry empty or holding earlier registrations
InitConc ==
    /\ workers = 1..NumWorkers
    /\ \E pre \in {<<>>, <<"a">>} : InitRegistry(pre)

WorkerIds == 1..NumWorkers
AllIds == ExplicitIds \cup UuidPool

NextReg ==
    \E t \in WorkerIds :
        \/ \E typ \in DasTypes, rid \in {""} \cup AllIds : RegisterBegin(t, typ, rid)
        \/ RegisterConstruct(t)
        \/ RegisterStore(t)
        \/ \E das_key \in AllIds : UnregisterBegin(t, das_key)
        \/ UnregisterPop(t)
        \/ UnregisterClose(t)
        \/ \E rpc \in InstanceRpcs, das_key \in AllIds, table \in TableNames :
               TableCallBegin(t, rpc, das_key, table)
        \/ TableCallLookup(t)
        \/ Check(t)
        \/ Return(t)

SpecReg == InitReg /\ [][NextReg]_vars

SpecConc == InitConc /\ [][NextReg]_vars

\* ---------------------------------------------------------------------------
\* SpecStreams: several calls of execute on one MockTable, each with its own
\* query, context and consumer, their steps interleaved
\* ---------------------------------------------------------------------------
NumStreams == 2
MaxStreamRows == 6

StreamIds == 1..NumStreams

\* max_rows and requested_cols of the call with query q
StreamMaxRows(q) == IF q.hasLimit THEN q.limit ELSE table_nrows
StreamCols(q) == IF q.columns # <<>> THEN q.columns ELSE <<"id", "name">>

\* stream s is at position pc of its call
StreamAt(s, pc) == s \in DOMAIN st /\ st[s].pc = pc

\* what next(gen) does to the call r: it runs on from where it is suspended
NextStep(r) ==
    CASE r.pc = "init" -> [r EXCEPT !.pc = "poll", !.i = 1]
      [] r.pc = "susp_full" -> [r EXCEPT !.pc = "poll", !.i = @ + 1, !.current_batch = <<>>]
      [] r.pc = "susp_left" -> [r EXCEPT !.pc = "finally"]

\* the loop head and the cancellation check
PollStep(r) ==
    IF r.i > table_nrows
    THEN [r EXCEPT !.pc = "leftover", !.end = "exhausted"]
    ELSE IF ~r.active
         THEN [r EXCEPT !.pc = "leftover", !.end = "cancel"]
         ELSE [r EXCEPT !.pc = "row"]

\* the cap, the qualifiers, the row, the full batch
RowStep(r) ==
    LET nb == Append(r.current_batch, BuildRow(StreamCols(r.query), r.i)) IN
    IF r.i > StreamMaxRows(r.query)
    THEN [r EXCEPT !.pc = "leftover", !.end = "cap"]
    ELSE IF ~row_matches_quals(r.i, r.query.quals)
         THEN [r EXCEPT !.pc = "poll", !.i = @ + 1]
         ELSE IF Len(nb) >= batch_size
              THEN [r EXCEPT !.current_batch = nb, !.out = Append(@, nb), !.pc = "susp_full"]
              ELSE [r EXCEPT !.current_batch = nb, !.pc = "poll", !.i = @ + 1]

\* the test that guards the leftover rows
LeftoverStep(r) ==
    [r EXCEPT !.pc = IF r.current_batch # <<>> /\ r.active THEN "yield_left" ELSE "finally"]

\* the yield of the leftover rows
YieldLeftStep(r) == [r EXCEPT !.out = Append(@, r.current_batch), !.pc = "susp_left"]

\* the finally block
FinallyStep(r) == [r EXCEPT !.pc = "done"]

\* next(gen) by the consumer of stream s
StreamNext(s) ==
    /\ s \in DOMAIN st
    /\ st[s].pc \in {"init", "susp_full", "susp_left"}
    /\ st' = [st EXCEPT ![s] = NextStep(st[s])]
    /\ UNCHANGED <<table_nrows, execVars, qualVars, regVars>>

\* gen.close() by the consumer of stream s while it is suspended at a yield
StreamClose(s) ==
    /\ s \in DOMAIN st
    /\ st[s].pc \in {"susp_full", "susp_left"}
    /\ st' = [st EXCEPT ![s] = [st[s] EXCEPT !.pc = "finally", !.end = "closed"]]
    /\ UNCHANGED <<table_nrows, execVars, qualVars, regVars>>

\* the signal of the call of stream s is raised; the position the stream is
\* at is kept as its cancellation history
StreamCancel(s) ==
    /\ s \in DOMAIN st
    /\ st[s].active
    /\ st[s].pc # "done"
    /\ st' = [st EXCEPT ![s] = [st[s] EXCEPT !.active = FALSE,
                                             !.cancelPc = st[s].pc,
                                             !.cancelI = st[s].i]]
    /\ UNCHANGED <<table_nrows, execVars, qualVars, regVars>>

StreamPoll(s) ==
    /\ StreamAt(s, "poll")
    /\ st' = [st EXCEPT ![s] = PollStep(st[s])]
    /\ UNCHANGED <<table_nrows, execVars, qualVars, regVars>>

\* variant: current_batch is kept on the table, one list for all its streams
StreamRow_SharedBatch(s) ==
    /\ StreamAt(s, "row")
    /\ st' = [u \in DOMAIN st |->
                 IF u = s THEN RowStep(st[s])
                 ELSE [st[u] EXCEPT !.current_batch = RowStep(st[s]).current_batch]]
    /\ UNCHANGED <<table_nrows, execVars, qualVars, regVars>>

StreamRow(s) ==
    /\ StreamAt(s, "row")
    /\ st' = [st EXCEPT ![s] = RowStep(st[s])]
    /\ UNCHANGED <<table_nrows, execVars, qualVars, regVars>>

StreamLeftover(s) ==
    /\ StreamAt(s, "leftover")
    /\ st' = [st EXCEPT ![s] = LeftoverStep(st[s])]
    /\ UNCHANGED <<table_nrows, execVars, qualVars, regVars>>

StreamYieldLeft(s) ==
    /\ StreamAt(s, "yield_left")
    /\ st' = [st EXCEPT ![s] = YieldLeftStep(st[s])]
    /\ UNCHANGED <<table_nrows, execVars, qualVars, regVars>>

StreamFinally(s) ==
    /\ StreamAt(s, "finally")
    /\ st' = [st EXCEPT ![s] = FinallyStep(st[s])]
    /\ UNCHANGED <<table_nrows, execVars, qualVars, regVars>>

\* the queries of the streams, taken in turn: neighbouring streams differ in
\* limit, qualifiers and columns
StreamQueries ==
    << [hasLimit |-> FALSE, limit |-> 0, columns |-> <<"id">>, quals |-> <<>>],
       [hasLimit |-> TRUE, limit |-> 4, columns |-> <<"name">>,
        quals |-> <<Qual("id", "NOT_EQUALS", 2)>>],
       [hasLimit |-> TRUE, limit |-> 2, columns |-> <<"id", "name">>, quals |-> <<>>] >>

\* the call of execute of stream s before its first next()
StreamInitial(q) ==
    [query |-> q, active |-> TRUE, pc |-> "init", i |-> 0,
     current_batch |-> <<>>, out |-> <<>>, end |-> "none",
     cancelPc |-> "none", cancelI |-> 0]

InitStreams ==
    /\ table_nrows = MaxStreamRows
    /\ st = [s \in StreamIds |-> StreamInitial(StreamQueries[((s - 1) % Len(StreamQueries)) + 1])]
    /\ ExecOff
    /\ QualOff
    /\ RegOff

NextStreams ==
    \E s \in StreamIds :
        \/ StreamNext(s)
        \/ StreamClose(s)
        \/ StreamCancel(s)
        \/ StreamPoll(s)
        \/ StreamRow(s)
        \/ StreamLeftover(s)
        \/ StreamYieldLeft(s)
        \/ StreamFinally(s)

SpecStreams == InitStreams /\ [][NextStreams]_vars

\* ---------------------------------------------------------------------------
\* SpecInFlight: one ExecuteTable call served by worker 2, from its lookups to
\* the end of its stream, while worker 1 serves Unregister calls
\* ---------------------------------------------------------------------------
\* ExecuteTable up to get_das_or_error's test; the worker serves one stream
InFlightBegin(das_key, table) ==
    /\ fpc = "idle"
    /\ TableCallBegin(2, "ExecuteTable", das_key, table)

\* ExecuteTable's return from get_das_or_error and its get_table
InFlightLookup == TableCallLookup(2)

\* worker 2 has resolved instance and table and has called table.execute
InFlightResolved ==
    /\ At(2, "done")
    /\ th[2].call = "ExecuteTable"
    /\ th[2].status = "OK"
    /\ th[2].op = "execute"

\* the for loop over the generator begins
InFlightStart == InFlightResolved /\ FacStart

\* the call of worker 2 is over: it failed, or its stream has ended
InFlightReturn ==
    /\ InFlightResolved => fpc = "done"
    /\ Return(2)

InFlightQueries ==
    {[hasLimit |-> l.has, limit |-> l.v, columns |-> <<"id">>, quals |-> <<>>] :
        l \in {[has |-> FALSE, v |-> 0], [has |-> TRUE, v |-> 7]}}

InitInFlight ==
    /\ workers = {1, 2}
    /\ RegistryAfter(<<"a">>)
    /\ QualOff
    /\ StreamsOff
    /\ mode = "rpc"
    /\ nrows = MaxN
    /\ query \in InFlightQueries
    /\ hasCtx = TRUE
    /\ active = TRUE
    /\ gpc = "none"
    /\ i = 0
    /\ current_batch = <<>>
    /\ genOut = <<>>
    /\ genEnd = "none"
    /\ finalized = 0
    /\ gref = FALSE
    /\ fpc = "idle"
    /\ batch = <<>>
    /\ facOut = <<>>
    /\ cancelGenOut = -1
    /\ cancelFacOut = -1

NextInFlight ==
    \/ \E das_key \in ExplicitIds, table \in TableNames : InFlightBegin(das_key, table)
    \/ InFlightLookup
    \/ InFlightStart
    \/ InFlightReturn
    \/ \E das_key \in ExplicitIds : UnregisterBegin(1, das_key)
    \/ UnregisterPop(1)
    \/ UnregisterClose(1)
    \/ Return(1)
    \/ GenPoll
    \/ GenRow
    \/ GenLeftover
    \/ GenYieldLeft
    \/ GenFinally
    \/ GenDealloc
    \/ Cancel
    \/ FacGotBatch
    \/ FacLoopEnd
    \/ FacCheck
    \/ FacClose
    \/ FacBreak
    \/ FacYield
    \/ TransportNext
    \/ TransportClose
    \/ FacFinally

SpecInFlight == InitInFlight /\ [][NextInFlight]_vars

\* the steps of ExecuteTable's loop, of the transport that drives it, and of
\* the interpreter releasing the generator
InFlightConsumerStep ==
    \/ InFlightStart
    \/ FacGotBatch
    \/ FacLoopEnd
    \/ FacCheck
    \/ FacClose
    \/ FacBreak
    \/ FacYield
    \/ TransportNext
    \/ TransportClose
    \/ FacFinally
    \/ GenDealloc

\* the same, the generator running on once resumed and the transport pulling
\* or closing; the workers serving Unregister are under no obligation
SpecInFlightFair ==
    SpecInFlight /\ WF_vars(GenStep) /\ WF_vars(InFlightConsumerStep)

\* ---------------------------------------------------------------------------
\* Reference notions used by the properties
\* ---------------------------------------------------------------------------
\* what the comparison named by op means
OpHolds(op, r, v) ==
    CASE op = "EQUALS"                -> r = v
      [] op = "NOT_EQUALS"            -> r # v
      [] op = "GREATER_THAN"          -> r > v
      [] op = "GREATER_THAN_OR_EQUAL" -> r >= v
      [] op = "LESS_THAN"             -> r < v
      [] op = "LESS_THAN_OR_EQUAL"    -> r =< v

\* a qualifier the table evaluates: an integer comparison on the column id
Evaluated(q) == q.name = "id" /\ q.simple /\ q.isInt /\ q.op \in CompareOps

Satisfies(r, quals) ==
    \A k \in DOMAIN quals : Evaluated(quals[k]) => OpHolds(quals[k].op, r, quals[k].v)

\* the non-batched enumeration of the ordinals from..to that satisfy the query's qualifiers
RECURSIVE RefEnum(_, _)
RefEnum(from, to) ==
    IF from > to THEN <<>>
    ELSE (IF Satisfies(from, query.quals)
          THEN <<BuildRow(requested_cols, from)>> ELSE <<>>) \o RefEnum(from + 1, to)

IsPrefix(s, t) == Len(s) <= Len(t) /\ SubSeq(t, 1, Len(s)) = s

GenRows == Concat(genOut)
FacRows == Concat(facOut)

\* the generator ran to its natural end: ordinals exhausted or the cap reached
GenCompleted == gpc = "done" /\ genEnd \in {"exhausted", "cap"}

\* ---------------------------------------------------------------------------
\* Properties of one execution (SpecExec)
\* ---------------------------------------------------------------------------

\* C1: once the cancellation signal has been raised with K batches emitted, no
\* further batch is emitted, by execute or by ExecuteTable, and by the end of
\* the generator its finally block has run exactly once.
C1_CancelTruncates ==
    /\ cancelGenOut >= 0 => Len(genOut) = cancelGenOut
    /\ cancelFacOut >= 0 => Len(facOut) = cancelFacOut
    /\ finalized <= 1
    /\ (gpc = "done" /\ genEnd # "unstarted") => finalized = 1

\* C2: an execution that has entered its try block runs the finally block
\* exactly once: never twice, exactly once when the generator has ended on any
\* exit path, and only on the step that leaves the streaming positions.
GenStreaming ==
    gpc \in {"poll", "row", "leftover", "yield_left", "susp_full", "susp_left", "finally"}

C2_CleanupExactlyOnce ==
    /\ [](finalized <= 1)
    /\ [](GenStreaming => finalized = 0)
    /\ []((gpc = "done" /\ genEnd # "unstarted") <=> finalized = 1)
    /\ [][finalized' # finalized =>
            /\ finalized' = finalized + 1
            /\ GenStreaming
            /\ gpc' = "done"
            /\ genEnd' \in {"exhausted", "cap", "cancel", "closed"}]_vars

C2_Witness == gpc = "done" /\ genEnd = "closed" /\ finalized = 1 /\ Len(genOut) = 1

\* C3: with a limit L <= N and no cancellation, the rows emitted so far are a
\* prefix of the qualifying rows of ordinals 1..L, never more than L, and at
\* the natural end they are exactly those rows.
C3_LimitRespected ==
    (query.hasLimit /\ query.limit <= nrows /\ active) =>
        /\ Len(GenRows) <= query.limit
        /\ IsPrefix(GenRows, RefEnum(1, query.limit))
        /\ IsPrefix(FacRows, GenRows)
        /\ GenCompleted => GenRows = RefEnum(1, query.limit)
        /\ (fpc = "done") => FacRows = RefEnum(1, query.limit)

C3_Witness ==
    /\ query.hasLimit /\ query.limit = 7 /\ nrows = MaxN /\ active
    /\ fpc = "done"
    /\ genEnd = "cap"
    /\ Len(GenRows) = 6
    /\ Len(genOut) = 2

\* C5: with no limit and no cancellation, the concatenation of the batches is
\* at every moment a prefix of the reference enumeration of 1..N, and at the
\* natural end it is that enumeration, trailing partial batch included.
C5_BatchingTransparent ==
    (~query.hasLimit /\ active) =>
        /\ IsPrefix(GenRows, RefEnum(1, nrows))
        /\ IsPrefix(FacRows, GenRows)
        /\ GenCompleted => GenRows = RefEnum(1, nrows)
        /\ (fpc = "done") => FacRows = RefEnum(1, nrows)

C5_Witness ==
    /\ ~query.hasLimit /\ active /\ nrows = MaxN /\ query.quals = <<>>
    /\ GenCompleted
    /\ Len(genOut) = 3
    /\ Len(Last(genOut)) = MaxN - 2 * batch_size

\* C6: every row, emitted or pending, carries exactly the requested columns in
\* request order (id and name when none is requested), and a column the table
\* does not know carries a string placeholder.
RowNames(row) == [k \in 1..Len(row) |-> row[k].name]

RowProjected(row) ==
    /\ RowNames(row) = (IF query.columns = <<>> THEN <<"id", "name">> ELSE query.columns)
    /\ \A k \in 1..Len(row) :
          /\ row[k].name = "id" => row[k].data[1] = "int"
          /\ row[k].name # "id" => row[k].data[1] = "string" /\ Len(row[k].data) > 2

C6_Projection ==
    /\ \A b \in 1..Len(genOut) : \A r \in 1..Len(genOut[b]) : RowProjected(genOut[b][r])
    /\ \A b \in 1..Len(facOut) : \A r \in 1..Len(facOut[b]) : RowProjected(facOut[b][r])
    /\ \A r \in 1..Len(current_batch) : RowProjected(current_batch[r])

C6_Witness ==
    /\ query.columns = <<"id", "extra">>
    /\ Len(facOut) = 2
    /\ facOut[2][1][2].name = "extra"

\* C11: a candidate ordinal is taken up only by a poll of the signal that found
\* it active, so the only row processed after the signal is raised is the one
\* whose poll had already passed; a poll that finds the signal raised ends the
\* loop there, and from then on no ordinal is advanced, no row is accumulated
\* and no batch is emitted.
C11_PollPerRow ==
    /\ [][(gpc # "row" /\ gpc' = "row") =>
             /\ gpc = "poll"
             /\ i' = i
             /\ i <= nrows
             /\ hasCtx => active]_vars
    /\ [][(gpc = "row" /\ gpc' # "row") =>
             \/ gpc' = "poll" /\ i' = i + 1
             \/ gpc' = "susp_full" /\ i' = i
             \/ gpc' = "leftover" /\ i' = i]_vars
    /\ [][(gpc = "poll" /\ gpc' # "poll" /\ hasCtx /\ ~active /\ i <= nrows) =>
             /\ gpc' = "leftover"
             /\ genEnd' = "cancel"]_vars
    /\ [][genEnd = "cancel" =>
             /\ genEnd' = "cancel"
             /\ gpc' \in {"leftover", "finally", "done"}
             /\ i' = i
             /\ current_batch' = current_batch
             /\ genOut' = genOut]_vars

C11_Witness ==
    /\ gpc = "done"
    /\ genEnd = "cancel"
    /\ query.quals # <<>>
    /\ Len(genOut) = 1
    /\ current_batch # <<>>
    /\ i < nrows

\* C12: when ExecuteTable has finished, whichever way it stopped consuming the
\* executor it started, the executor has ended and its cleanup has run.
C12_ForcedFinalization ==
    (fpc = "done" /\ gpc # "init") => (gpc = "done" /\ finalized = 1)

\* the pending partial batch was emitted as the last element
PartialEmitted == genOut # <<>> /\ Last(genOut) = current_batch

\* C18 (as stated): when the loop of execute ended normally, by the cap or by
\* exhaustion, with rows pending, the generator ends with those rows emitted
\* as its last batch; they are discarded only after a cancellation break.
C18_PartialOnNormalEnd ==
    (GenCompleted /\ current_batch # <<>>) => PartialEmitted

\* C18 (amended): the test after the loop emits the pending rows as the last
\* batch iff there are any and the signal is not raised at that moment (or
\* there is no context); so after a normal end of the loop the pending rows
\* are emitted unless the signal was raised before that test, and after a
\* cancellation break they are never emitted.
C18_PartialBatch ==
    /\ [][(gpc = "leftover" /\ gpc' # "leftover") =>
             IF current_batch # <<>> /\ (~hasCtx \/ active)
             THEN gpc' = "yield_left"
             ELSE gpc' = "finally" /\ genOut' = genOut]_vars
    /\ [][(gpc = "yield_left" /\ gpc' # "yield_left") =>
             /\ gpc' = "susp_left"
             /\ genOut' = Append(genOut, current_batch)]_vars
    /\ []((GenCompleted /\ current_batch # <<>> /\ (~hasCtx \/ active)) => PartialEmitted)
    /\ []((gpc = "done" /\ genEnd = "cancel" /\ current_batch # <<>>) => ~PartialEmitted)

C18_Witness ==
    /\ GenCompleted
    /\ genEnd = "cap"
    /\ query.hasLimit /\ query.limit = 7 /\ query.quals = <<>>
    /\ active
    /\ Len(genOut) = 2
    /\ Len(current_batch) = 2
    /\ PartialEmitted

\* C19: every batch handed over, by execute and by ExecuteTable, holds between
\* one and batch_size rows, every batch but the last holds exactly batch_size,
\* and when no ordinal of the table satisfies the qualifiers no batch is
\* handed over at all.
C19_BatchShape ==
    /\ \A k \in 1..Len(genOut) : Len(genOut[k]) >= 1 /\ Len(genOut[k]) <= batch_size
    /\ \A k \in 1..(Len(genOut) - 1) : Len(genOut[k]) = batch_size
    /\ \A k \in 1..Len(facOut) : Len(facOut[k]) >= 1 /\ Len(facOut[k]) <= batch_size
    /\ \A k \in 1..(Len(facOut) - 1) : Len(facOut[k]) = batch_size
    /\ RefEnum(1, nrows) = <<>> => (genOut = <<>> /\ facOut = <<>>)

C19_Witness ==
    /\ nrows = MaxN /\ ~query.hasLimit /\ query.quals = <<>>
    /\ fpc = "done"
    /\ Len(facOut) = 3
    /\ Len(facOut[1]) = batch_size /\ Len(facOut[2]) = batch_size
    /\ Len(facOut[3]) = MaxN - 2 * batch_size

\* the smaller of the limit and the table's number of rows
EffectiveBound == IF query.limit < nrows THEN query.limit ELSE nrows

\* C24: with any limit L >= 0 and no cancellation, the rows emitted so far are
\* a prefix of the qualifying rows of ordinals 1..min(L, N) and at the natural
\* end they are exactly those rows; with L = 0 no batch is ever emitted, and
\* with L > N the rows at the end are those of the whole table.
C24_AnyLimit ==
    (query.hasLimit /\ active) =>
        /\ IsPrefix(GenRows, RefEnum(1, EffectiveBound))
        /\ IsPrefix(FacRows, GenRows)
        /\ GenCompleted => GenRows = RefEnum(1, EffectiveBound)
        /\ (fpc = "done") => FacRows = RefEnum(1, EffectiveBound)
        /\ query.limit = 0 => (genOut = <<>> /\ facOut = <<>>)
        /\ (query.limit > nrows /\ GenCompleted) =>
              (genEnd = "exhausted" /\ GenRows = RefEnum(1, nrows))

C24_Witness ==
    /\ query.hasLimit /\ query.limit = MaxN + 1 /\ nrows = MaxN /\ active
    /\ query.quals = <<>>
    /\ fpc = "done"
    /\ genEnd = "exhausted"
    /\ Len(FacRows) = MaxN

\* the last ordinal the loop may examine without ending: min(limit, N)
LoopBound == IF max_rows < nrows THEN max_rows ELSE nrows

C4_QualifierCorrect ==
    (q_done /\ \A k \in DOMAIN q_quals : Evaluated(q_quals[k])) =>
        (q_result <=> \A k \in DOMAIN q_quals :
                         OpHolds(q_quals[k].op, q_row, q_quals[k].v))

C4_Witness ==
    /\ q_done
    /\ q_row = 3
    /\ q_quals = <<Qual("id", "GREATER_THAN", 1), Qual("id", "LESS_THAN_OR_EQUAL", 2)>>
    /\ ~q_result

\* C23: a qualifier on a column other than id, one that is not a simple
\* qualifier, one whose literal is not an integer, and one whose operator is
\* not among the six comparisons take no part in the result: the call returns,
\* and the row is included iff the remaining qualifiers all hold for it.
C23_VacuousQualifiers ==
    q_done =>
        (q_result <=> \A k \in DOMAIN q_quals :
                         \/ q_quals[k].name # "id"
                         \/ ~q_quals[k].simple
                         \/ ~q_quals[k].isInt
                         \/ q_quals[k].op \notin CompareOps
                         \/ OpHolds(q_quals[k].op, q_row, q_quals[k].v))

C23_Witness ==
    /\ q_done
    /\ q_row = 2
    /\ q_quals = <<Qual("name", "EQUALS", 1), Qual("id", "GREATER_THAN", 1)>>
    /\ q_result

\* ---------------------------------------------------------------------------
\* Properties of the registry, calls one after the other (SpecReg)
\* ---------------------------------------------------------------------------

\* C7: a Register of the supported type whose explicit id is in the registry
\* answers that id, constructs nothing and leaves the registry as it is; a
\* Register that generates its id answers an id no earlier such call answered,
\* mapped to the instance this call constructed and to no other id's instance.
C7_IdempotentRegistration ==
    /\ [][\A t \in workers :
            /\ ( /\ th[t].pc = "idle"
                 /\ th'[t].pc # "idle"
                 /\ th'[t].call = "Register"
                 /\ th'[t].typ = "mock"
                 /\ th'[t].explicit
                 /\ th'[t].key \in DOMAIN active_dases )
               => /\ th'[t].pc = "done"
                  /\ th'[t].status = "OK"
                  /\ th'[t].id = th'[t].key
                  /\ inst_count' = inst_count
                  /\ active_dases' = active_dases
            /\ ( /\ th[t].call = "Register"
                 /\ ~th[t].explicit
                 /\ th[t].pc # "done"
                 /\ th'[t].pc = "done"
                 /\ th'[t].typ = "mock" )
               => /\ th'[t].status = "OK"
                  /\ th'[t].id \notin issued
                  /\ th'[t].id \in DOMAIN active_dases'
                  /\ active_dases'[th'[t].id] = th[t].inst
                  /\ th[t].inst = inst_count
                  /\ \A k \in DOMAIN active_dases' \ {th'[t].id} :
                        active_dases'[k] # th[t].inst
         ]_vars
    /\ [](\A k1, k2 \in issued \cap DOMAIN active_dases :
             k1 # k2 => active_dases[k1] # active_dases[k2])

C7_Witness ==
    /\ th[1].pc = "done"
    /\ th[1].call = "Register"
    /\ th[1].explicit
    /\ th[1].inst = 0
    /\ th[1].id = "a"
    /\ "a" \in DOMAIN active_dases
    /\ inst_count = 3
    /\ Cardinality(issued) = 2

\* C8: once Unregister(id) has succeeded and until id is registered again,
\* every Unregister and every instance-resolving call that names id ends with
\* NOT_FOUND, and a Register with that explicit id goes on to construct and
\* store an instance that was never closed.
C8_UnregisterClearsState ==
    [][\A t \in workers :
          /\ ( /\ th[t].pc = "idle"
               /\ th'[t].pc # "idle"
               /\ th'[t].key \in unregistered
               /\ th'[t].call # "Register" )
             => /\ th'[t].pc = "done"
                /\ th'[t].status = "NOT_FOUND"
          /\ ( /\ th[t].pc = "idle"
               /\ th'[t].pc # "idle"
               /\ th'[t].key \in unregistered
               /\ th'[t].call = "Register"
               /\ th'[t].typ = "mock" )
             => th'[t].pc = "construct"
          /\ ( /\ th[t].pc = "store"
               /\ th[t].key \in unregistered )
             => /\ th'[t].status = "OK"
                /\ th'[t].id = th[t].key
                /\ active_dases'[th[t].key] = th[t].inst
                /\ closed[th[t].inst] = 0
      ]_vars

\* C13: an Unregister of an id the registry does not hold ends with NOT_FOUND
\* and changes nothing; an Unregister of an id it holds removes the entry and
\* calls close() on the removed instance exactly once.
C13_UnregisterContract ==
    [][\A t \in workers :
          /\ ( /\ th[t].pc = "idle"
               /\ th'[t].pc # "idle"
               /\ th'[t].call = "Unregister"
               /\ th'[t].key \notin DOMAIN active_dases )
             => /\ th'[t].pc = "done"
                /\ th'[t].status = "NOT_FOUND"
                /\ active_dases' = active_dases
                /\ closed' = closed
                /\ inst_count' = inst_count
          /\ ( /\ th[t].call = "Unregister"
               /\ th[t].pc # "done"
               /\ th'[t].pc = "done"
               /\ th'[t].status = "OK" )
             => /\ th[t].key \notin DOMAIN active_dases'
                /\ closed[th[t].inst] = 0
                /\ closed'[th[t].inst] = 1
      ]_vars

\* the table names MockDAS.get_table resolves
ResolvableTables == {"small_table", "large_table"}

\* C14: a table-scoped call that names an id the registry does not hold ends
\* at once with NOT_FOUND and "DAS not found"; one that names a held id goes
\* on to the table lookup, and when the table name is unknown it ends with
\* INVALID_ARGUMENT and "Unknown table"; in both cases no method of a table
\* has been called. With a known table the handler's table method is called.
C14_ResolveInstanceThenTable ==
    [][\A t \in workers :
          /\ ( /\ th[t].pc = "idle"
               /\ th'[t].pc # "idle"
               /\ th'[t].call \in TableRpcs
               /\ th'[t].key \notin DOMAIN active_dases )
             => /\ th'[t].pc = "done"
                /\ th'[t].status = "NOT_FOUND"
                /\ th'[t].msg = "DAS not found"
                /\ th'[t].op = ""
          /\ ( /\ th[t].pc = "idle"
               /\ th'[t].pc # "idle"
               /\ th'[t].call \in TableRpcs
               /\ th'[t].key \in DOMAIN active_dases )
             => /\ th'[t].pc = "lookup"
                /\ th'[t].op = ""
          /\ ( /\ th[t].pc = "lookup"
               /\ th'[t].pc = "done"
               /\ th[t].call \in TableRpcs
               /\ th[t].key \in DOMAIN active_dases
               /\ th[t].table \notin ResolvableTables )
             => /\ th'[t].status = "INVALID_ARGUMENT"
                /\ th'[t].msg = "Unknown table"
                /\ th'[t].op = ""
          /\ ( /\ th[t].pc = "lookup"
               /\ th'[t].pc = "done"
               /\ th[t].call \in TableRpcs
               /\ th[t].key \in DOMAIN active_dases
               /\ th[t].table \in ResolvableTables )
             => th'[t].op = TableMethod(th[t].call)
      ]_vars

C14_Witness ==
    /\ th[1].pc = "done"
    /\ th[1].call = "ExecuteTable"
    /\ th[1].key \in DOMAIN active_dases
    /\ th[1].table = "no_such_table"
    /\ th[1].status = "INVALID_ARGUMENT"
    /\ th[1].op = ""

\* C15: a Register whose type is not "mock" answers at once with the error in
\* the response, carries no id, constructs no instance, draws no uuid and
\* leaves the registry as it is, whether or not it names an id and whether or
\* not that id is registered.
C15_UnsupportedType ==
    [][\A t \in workers :
          ( /\ th[t].pc = "idle"
            /\ th'[t].pc # "idle"
            /\ th'[t].call = "Register"
            /\ th'[t].typ # "mock" )
          => /\ th'[t].pc = "done"
             /\ th'[t].status = "OK"
             /\ th'[t].id = ""
             /\ th'[t].msg = "Unsupported DAS type"
             /\ th'[t].inst = 0
             /\ inst_count' = inst_count
             /\ uuids_used' = uuids_used
             /\ active_dases' = active_dases
      ]_vars

C15_Witness ==
    /\ th[1].pc = "done"
    /\ th[1].call = "Register"
    /\ th[1].typ = "unsupported-kind"
    /\ th[1].explicit
    /\ th[1].key = "a"
    /\ "a" \in DOMAIN active_dases
    /\ th[1].id = ""

\* C16: a mutation call whose instance and table resolve calls the table's
\* method and ends with UNIMPLEMENTED, and the step changes neither the
\* registry nor any instance; no mutation call ever ends with success.
C16_MutationsUnsupported ==
    /\ [][\A t \in workers :
             ( /\ th[t].pc = "lookup"
               /\ th'[t].pc = "done"
               /\ th[t].call \in Mutations
               /\ th[t].key \in DOMAIN active_dases
               /\ th[t].table \in ResolvableTables )
             => /\ th'[t].status = "UNIMPLEMENTED"
                /\ th'[t].msg = "not supported"
                /\ th'[t].op = TableMethod(th[t].call)
                /\ active_dases' = active_dases
                /\ inst_count' = inst_count
                /\ inst_key' = inst_key
                /\ closed' = closed
         ]_vars
    /\ [](\A t \in workers :
             (th[t].pc = "done" /\ th[t].call \in Mutations) => th[t].status # "OK")

C16_Witness ==
    /\ th[1].pc = "done"
    /\ th[1].call = "DeleteTable"
    /\ th[1].table = "small_table"
    /\ th[1].status = "UNIMPLEMENTED"
    /\ th[1].op = "delete"

\* ---------------------------------------------------------------------------
\* Properties of several streams on one table (SpecStreams)
\* ---------------------------------------------------------------------------
\* one step of a call that runs alone and whose consumer always pulls
AloneStep(r) ==
    CASE r.pc \in {"init", "susp_full", "susp_left"} -> NextStep(r)
      [] r.pc = "poll" -> PollStep(r)
      [] r.pc = "row" -> RowStep(r)
      [] r.pc = "leftover" -> LeftoverStep(r)
      [] r.pc = "yield_left" -> YieldLeftStep(r)
      [] r.pc = "finally" -> FinallyStep(r)
      [] OTHER -> r

\* the batches a call emits when it runs alone from r to its end, its signal
\* raised when it is at position cpc of ordinal ci (never, when cpc = "none")
RECURSIVE RunAlone(_, _, _)
RunAlone(r, cpc, ci) ==
    LET r1 == IF r.active /\ r.pc = cpc /\ r.i = ci THEN [r EXCEPT !.active = FALSE] ELSE r IN
    IF r1.pc = "done" THEN r1.out ELSE RunAlone(AloneStep(r1), cpc, ci)

\* what stream s emits alone with its query and its cancellation history
AloneOutput(s) == RunAlone(StreamInitial(st[s].query), st[s].cancelPc, st[s].cancelI)

\* C21: under every interleaving of the steps of the streams of one table,
\* what a stream has emitted is a prefix of the batch sequence it emits when
\* run alone with its query and its cancellation history, and is that
\* sequence when the stream has ended without having been closed; a step of
\* one stream, its cancellation and its closing included, changes nothing of
\* any other stream nor of the table.
C21_StreamsIndependent ==
    /\ [](\A s \in StreamIds :
             /\ IsPrefix(st[s].out, AloneOutput(s))
             /\ (st[s].pc = "done" /\ st[s].end # "closed") => st[s].out = AloneOutput(s))
    /\ [][\A s \in StreamIds :
             st'[s] # st[s] => \A u \in StreamIds \ {s} : st'[u] = st[u]]_vars
    /\ [][table_nrows' = table_nrows]_vars

C21_Witness ==
    /\ table_nrows = MaxStreamRows
    /\ st[1].pc = "done" /\ st[1].active /\ st[1].end = "exhausted"
    /\ Len(st[1].out) = 2
    /\ st[2].pc = "done" /\ ~st[2].active /\ st[2].end = "cancel"
    /\ st[2].cancelPc = "row" /\ st[2].cancelI = 3
    /\ st[2].out = <<>>

\* ---------------------------------------------------------------------------
\* Properties of a stream in flight while its instance is unregistered (SpecInFlight)
\* ---------------------------------------------------------------------------

\* C25: a stream that has resolved its instance runs to its end, whatever
\* Unregister calls are served meanwhile, provided the generator runs on and
\* the transport keeps pulling or closes;
\* no step of an Unregister touches the stream or its signal; a stream
\* that has resolved its instance keeps its successful outcome until it is
\* over; whatever has become of the instance, what the stream has emitted is
\* a prefix of the rows of its query and, when it ends with its signal never
\* raised, all of them; and a call ends with NOT_FOUND only if the instance
\* was not in the registry when the call looked it up.
C25_InFlightUnaffected ==
    /\ InFlightResolved ~> (fpc = "done")
    /\ [][th'[1] # th[1] => UNCHANGED execVars]_vars
    /\ [][InFlightResolved => (th'[2] = th[2] \/ (th'[2].pc = "idle" /\ fpc = "done"))]_vars
    /\ [](active => /\ IsPrefix(FacRows, RefEnum(1, LoopBound))
                    /\ (fpc = "done") => FacRows = RefEnum(1, LoopBound))
    /\ [][\A t \in workers :
             (th[t].pc # "done" /\ th'[t].pc = "done" /\ th'[t].status = "NOT_FOUND")
                => (th[t].pc = "idle" /\ th'[t].key \notin DOMAIN active_dases)]_vars

C25_Witness ==
    /\ InFlightResolved
    /\ th[2].key = "a"
    /\ "a" \notin DOMAIN active_dases
    /\ closed[1] = 1
    /\ th[1].pc = "done" /\ th[1].call = "Unregister" /\ th[1].status = "OK"
    /\ active
    /\ fpc = "susp"
    /\ Len(facOut) = 1
    /\ gpc = "susp_full"

\* ---------------------------------------------------------------------------
\* Properties of the registry under interleaved workers (SpecConc)
\* ---------------------------------------------------------------------------
Stored(n) == inst_key[n] \in DOMAIN active_dases /\ active_dases[inst_key[n]] = n

AllCallsFinished == \A t \in workers : th[t].pc \in {"idle", "done"}

\* C17: whatever the registry holds and whatever the other workers are in
\* the middle of, a health Check ends at once with status SERVING and the
\* description "Mock server is healthy." (which contains "healthy"), and the
\* step changes nothing but the record of the worker that served it.
C17_HealthAlwaysServing ==
    [][\A t \in workers :
          ( /\ th[t].pc = "idle"
            /\ th'[t].pc # "idle"
            /\ th'[t].call = "Check" )
          => /\ th'[t].pc = "done"
             /\ th'[t].status = "OK"
             /\ th'[t].health = "SERVING"
             /\ th'[t].msg = "Mock server is healthy."
             /\ \A u \in workers \ {t} : th'[u] = th[u]
             /\ UNCHANGED <<active_dases, inst_count, inst_key, closed, uuids_used,
                            unregistered, issued>>
      ]_vars

C17_Witness ==
    /\ th[1].pc = "done"
    /\ th[1].call = "Check"
    /\ th[1].health = "SERVING"
    /\ th[2].pc = "close"
    /\ DOMAIN active_dases = {}
    /\ inst_count = 1

\* a finished call that did not succeed: an abort, an exception, or a
\* Register that answered an error in its response
Failed(r) == r.status # "OK" \/ (r.call = "Register" /\ r.id = "")

\* the registry's entry for id k is the same before and after the step
EntryUnchanged(k) ==
    /\ (k \in DOMAIN active_dases') <=> (k \in DOMAIN active_dases)
    /\ k \in DOMAIN active_dases => active_dases'[k] = active_dases[k]

\* C20: under any interleaving, a step of a call on id A leaves the entry of
\* every other id as it is; no step of a call other than Register and
\* Unregister changes the dictionary, nor does any step of those two but the
\* store and the pop; and a call that ends in failure ends before it has
\* stored or popped anything, by a step that leaves the dictionary as it is.
C20_FailuresAreLocal ==
    [][\A t \in workers :
          th'[t] # th[t] =>
             LET c == IF th[t].pc = "idle" THEN th'[t] ELSE th[t] IN
             /\ \A k \in AllIds \ {c.key} : EntryUnchanged(k)
             /\ c.call \notin {"Register", "Unregister"} => active_dases' = active_dases
             /\ (th'[t].pc = "done" /\ Failed(th'[t])) =>
                   /\ active_dases' = active_dases
                   /\ th[t].pc \in {"idle", "construct", "pop", "lookup"}
             /\ (c.call \in {"Register", "Unregister"} /\ c.pc \notin {"store", "pop"})
                   => active_dases' = active_dases
      ]_vars

C20_Witness ==
    /\ th[1].pc = "done"
    /\ th[1].call = "Register"
    /\ th[1].key = "b"
    /\ th[1].status = "OK"
    /\ th[2].pc = "done"
    /\ th[2].call = "Unregister"
    /\ th[2].key = "b"
    /\ Failed(th[2])
    /\ DOMAIN active_dases = {"a", "b"}
    /\ active_dases["a"] = 1

\* C9: when no call is in flight, every MockDAS that was constructed is the
\* one stored under its id or has been closed exactly once.
C9_NoInstanceLeak ==
    AllCallsFinished => \A n \in 1..inst_count : Stored(n) \/ closed[n] = 1

\* C10: no call ends with an unhandled exception: every finished call carries
\* its response or one of the statuses its handler aborts with.
C10_NoCrash ==
    \A t \in workers :
        th[t].pc = "done" =>
            th[t].status \in {"OK", "NOT_FOUND", "INVALID_ARGUMENT", "UNIMPLEMENTED"}

====
